---- MODULE Spec2Model ----
(***************************************************************************)
(* Gas resolution of pysui's GraphQL transaction builder                   *)
(* (src/pysui/sui/sui_pgql/pgql_txb_gas.py).                               *)
(*                                                                         *)
(* Two specifications:                                                     *)
(*   Spec     one get_gas_data call, cut at its remote queries (the only   *)
(*            suspension points): the caller's arguments are drawn in      *)
(*            Init, every reply of the remote is drawn when it arrives.    *)
(*   SelSpec  the pure selector _coins_for_budget applied to every coin    *)
(*            list and budget within the bounds.                           *)
(***************************************************************************)
EXTENDS Integers, Sequences, FiniteSets

(* ------------------------------ bounds --------------------------------- *)
\* largest coin balance in a get_gas_data call
MaxBal == 2
\* largest computation cost, and largest storage cost, a dry run reports
MaxCost == 1
\* longest coin list handled by one get_gas_data call (explicit or fetched)
MaxCoins == 2
\* largest number of owner-listing pages the remote serves
MaxPages == 2
\* largest explicit budget
MaxBudget == 2
\* longest coin list handed to the selector in SelSpec
MaxSelLen == 3
\* largest budget handed to the selector in SelSpec
MaxSelBudget == 3
\* largest coin balance handed to the selector in SelSpec
MaxSelBal == 3

\* the coin identifiers (coin_object_id) of the model
CoinIds == {"c1", "c2"}

(* ------------------------------ values --------------------------------- *)
\* An element of the caller's use_coins list: a str (an identifier) or a
\* SuiCoinObjectGQL (identifier and balance).  A str carries balance 0.
StrItem(id) == [kind |-> "str", coin_object_id |-> id, balance |-> 0]
CoinItem(id, bal) == [kind |-> "coin", coin_object_id |-> id, balance |-> bal]

StrItems == {StrItem(id) : id \in CoinIds}
CoinsUpTo(maxbal) == {CoinItem(id, bal) : id \in CoinIds, bal \in 0..maxbal}
Coins == CoinsUpTo(MaxBal)

SeqsUpTo(S, n) == UNION {[1..k -> S] : k \in 0..n}

\* Optional[int] budget: None, or an int
NoBudget == [given |-> FALSE, val |-> 0]
SomeBudget(n) == [given |-> TRUE, val |-> n]
\* Optional[list] use_coins: None, or a list
NoCoins == [given |-> FALSE, items |-> <<>>]
SomeCoins(s) == [given |-> TRUE, items |-> s]

RECURSIVE SumBalances(_)
SumBalances(s) == IF s = <<>> THEN 0 ELSE s[1].balance + SumBalances(Tail(s))

IsStr(x) == x.kind = "str"
IsCoin(x) == x.kind = "coin"
\* all(isinstance(x, str) ...), all(isinstance(x, SuiCoinObjectGQL) ...)
all_str(s) == \A i \in 1..Len(s) : IsStr(s[i])
all_coin(s) == \A i \in 1..Len(s) : IsCoin(s[i])

(* ------------------------- _coins_for_budget --------------------------- *)
\* bcs.ObjectReference.from_gql_ref: the reference of a coin keeps what
\* identifies the object (coin_object_id stands for identifier, version and
\* digest) and drops the balance.
from_gql_ref(x) == [ObjectID |-> x.coin_object_id]

RefsOf(s) == [i \in 1..Len(s) |-> from_gql_ref(s[i])]

\* line 102: the coins whose balance is strictly greater than the budget
\* (AtLeast: greater than or equal to it)
AtLeast(coins, budget) == SelectSeq(coins, LAMBDA x : x.balance >= budget)
exceeding(coins, budget) == SelectSeq(coins, LAMBDA x : x.balance > budget)

\* line 104: the first of them (PickLast: the last of them instead)
PickLast(fit) == <<fit[Len(fit)]>>
pick_fit(fit) == <<fit[1]>>

\* lines 106-113: the accumulation loop, from position i on
RECURSIVE accum_from(_, _, _, _, _)
accum_from(coins, budget, i, acc, sel) ==
    IF i > Len(coins) THEN [accum |-> acc, accum_coin |-> sel]
    ELSE IF acc >= budget THEN [accum |-> acc, accum_coin |-> sel]
    ELSE accum_from(coins, budget, i + 1, acc + coins[i].balance,
                    Append(sel, coins[i]))

\* the same loop leaving only once the budget is exceeded
RECURSIVE OvershootFrom(_, _, _, _, _)
OvershootFrom(coins, budget, i, acc, sel) ==
    IF i > Len(coins) THEN [accum |-> acc, accum_coin |-> sel]
    ELSE IF acc > budget THEN [accum |-> acc, accum_coin |-> sel]
    ELSE OvershootFrom(coins, budget, i + 1, acc + coins[i].balance,
                       Append(sel, coins[i]))

\* the same loop passing over the coins without balance
RECURSIVE SkipEmptyFrom(_, _, _, _, _)
SkipEmptyFrom(coins, budget, i, acc, sel) ==
    IF i > Len(coins) THEN [accum |-> acc, accum_coin |-> sel]
    ELSE IF acc >= budget THEN [accum |-> acc, accum_coin |-> sel]
    ELSE SkipEmptyFrom(coins, budget, i + 1, acc + coins[i].balance,
                       IF coins[i].balance = 0 THEN sel ELSE Append(sel, coins[i]))

AccumulateSkipEmpty(coins, budget) == SkipEmptyFrom(coins, budget, 1, 0, <<>>)
AccumulateOvershoot(coins, budget) == OvershootFrom(coins, budget, 1, 0, <<>>)
accumulate(coins, budget) == accum_from(coins, budget, 1, 0, <<>>)

\* line 114: the funds found do not cover the budget (NeverShort: the test
\* left out; ShortByTwo: the test off by one)
NeverShort(accum, budget) == FALSE
ShortByTwo(accum, budget) == accum + 1 < budget
falls_short(accum, budget) == accum < budget

\* lines 98-119.  ok = FALSE is the ValueError of line 115; coin_fit is the
\* list _coin_fit the references are made of.
coins_for_budget(coins, budget) ==
    LET fit == exceeding(coins, budget)
        acc == accumulate(coins, budget)
    IN  IF fit # <<>>
        THEN [ok |-> TRUE, coin_fit |-> pick_fit(fit),
              refs |-> RefsOf(pick_fit(fit)), accum |-> 0]
        ELSE IF falls_short(acc.accum, budget)
        THEN [ok |-> FALSE, coin_fit |-> <<>>, refs |-> <<>>,
              accum |-> acc.accum]
        ELSE [ok |-> TRUE, coin_fit |-> acc.accum_coin,
              refs |-> RefsOf(acc.accum_coin), accum |-> acc.accum]

(* ----------------------------- state ----------------------------------- *)
VARIABLES
    pc,               \* where the get_gas_data call stands:
                      \*   "start" | "fetch_ids" | "fetch_all" | "dry_run" | "done"
    budget_in,        \* the caller's budget argument
    use_coins_in,     \* the caller's use_coins argument
    objects_in_use,   \* the caller's objects_in_use argument
    use_coins,        \* the local use_coins (lines 157, 161, 170)
    coin_list,        \* the local coin_list of _get_all_gas_objects
    budget,           \* the local budget (line 163)
    queries,          \* every client.execute_query issued so far, in order
    replies,          \* result.is_ok() of every query answered so far, in order
    outcome,          \* what the call returned or raised
    coin_fit,         \* the coins behind the returned references (_coin_fit)
    filter_done,      \* line 170 has run
    selector_calls,   \* number of calls of _coins_for_budget (line 175)
    selector_args,    \* the arguments of each such call, and how many queries
                      \* had been issued and answered when it was made
    pages,            \* the pages received by _get_all_gas_objects, in order
    dry_reply,        \* the result of the dry run, once received
    sel_coins,        \* SelSpec: the selector's coins argument
    sel_budget,       \* SelSpec: the selector's budget argument
    sel_out,          \* SelSpec: the selector's result
    frames,           \* ConcSpec: the local variables of each running call
    conc_calls,       \* ConcSpec: each call's arguments, whether it has been
                      \* entered, what the caller's list held at its entry
                      \* and the results it has received, in order
    caller_coins,     \* ConcSpec: the list of coins the caller holds
    overlapped,       \* ConcSpec: a call has taken a step while the other
                      \* one was between its entry and its return
    group,            \* GroupSpec: the fields of a ProfileGroup
    last_op           \* GroupSpec: the last operation on it, its arguments
                      \* and how it ended

callVars == <<pc, budget_in, use_coins_in, objects_in_use, use_coins, coin_list,
              budget, queries, replies, outcome, coin_fit, filter_done,
              selector_calls, selector_args, pages, dry_reply>>
resVars == <<outcome, coin_fit, filter_done, selector_calls, selector_args>>
selVars == <<sel_coins, sel_budget, sel_out>>
concVars == <<frames, conc_calls, caller_coins, overlapped>>
grpVars == <<group, last_op>>
vars == <<pc, budget_in, use_coins_in, objects_in_use, use_coins, coin_list,
          budget, queries, replies, outcome, coin_fit, filter_done, selector_calls,
          selector_args, pages, dry_reply, sel_coins, sel_budget, sel_out,
          frames, conc_calls, caller_coins, overlapped, group, last_op>>

\* outcomes of a call
Pending == [kind |-> "pending", error |-> "", payment |-> <<>>, budget |-> 0]
Raised(e) == [kind |-> "error", error |-> e, payment |-> <<>>, budget |-> 0]

\* The arguments get_gas_data only hands on: the SignerBlock (a sponsored
\* transaction, so that the payer is not the sender), the gas price and the
\* transaction kind.
signing ==
    [sender_str |-> "0xsender", sponsor_str |-> "0xsponsor",
     payer_address |-> "0xsponsor"]
active_gas_price == 1000
tx_kind == "tx_kind"

\* line 166: base64.b64encode(tx_kind.serialize()).decode()
tx_bytes(kind) == <<"base64", <<"bcs", kind>>>>

\* line 176: the owner of the gas is the payer (OwnerIsSender: the sender)
OwnerIsSender(s) == [address |-> s.sender_str]
gas_owner(s) == [address |-> s.payer_address]

\* lines 174-179, bcs.GasData(payment, owner, price, budget): plain data
GasData(refs, b) ==
    [kind |-> "GasData", error |-> "", payment |-> refs, budget |-> b,
     owner |-> gas_owner(signing), price |-> active_gas_price]

\* the query nodes handed to client.execute_query
GetMultipleGasObjects == [node |-> "GetMultipleGasObjects", next_page |-> 0]
GetCoins(cursor) ==
    [node |-> "GetCoins", next_page |-> cursor, owner |-> signing.payer_address]
\* lines 66-76
DryRunTransactionKind ==
    [node |-> "DryRunTransactionKind", next_page |-> 0,
     tx_bytestr |-> tx_bytes(tx_kind),
     tx_meta |-> [sender |-> signing.sender_str,
                  gasPrice |-> active_gas_price,
                  gasSponsor |-> signing.sponsor_str],
     skip_checks |-> FALSE]

CountOf(node) == Cardinality({i \in 1..Len(queries) : queries[i].node = node})

\* Python truthiness of "budget" (line 162) and of "use_coins" (lines 154, 155)
\* (BudgetNeverTruthy: the budget is always estimated; BudgetAlwaysTruthy: never)
BudgetNeverTruthy(b) == FALSE
BudgetAlwaysTruthy(b) == TRUE
budget_truthy(b) == b.given /\ b.val # 0
\* (GivenIsTruthy: any list given counts, the empty one too)
GivenIsTruthy(c) == c.given
coins_truthy(c) == c.given /\ c.items # <<>>

\* no dry run answered yet
NoDryReply ==
    [answered |-> FALSE, is_ok |-> FALSE, status |-> "", c_cost |-> 0, s_cost |-> 0]

\* selector outcome before it has been applied (SelSpec)
SelIdle == [state |-> "input", coin_fit |-> <<>>, refs |-> <<>>, accum |-> 0]

(* --------------------------- get_gas_data ------------------------------ *)
\* line 170: drop the coins whose identifier is in objects_in_use (KeepAll:
\* the filter left out)
KeepAll(coins, in_use) == coins
remove_conflicts(coins, in_use) ==
    SelectSeq(coins, LAMBDA x : x.coin_object_id \notin in_use)

\* line 170 binds the local name use_coins to a new list: the list the caller
\* passed is left as it was (FilterInPlace: the caller's list of coins is
\* filtered in place instead)
FilterInPlace(arg, kept) ==
    IF coins_truthy(arg) /\ all_coin(arg.items) THEN [arg EXCEPT !.items = kept]
                                                 ELSE arg
caller_list(arg, kept) == arg

\* line 172: something is left to pay with (AlwaysLeft: the test left out)
AlwaysLeft(coins) == TRUE
something_left(coins) == coins # <<>>

\* lines 156-159: the explicit list mixes identifiers and coins (MixedIgnored:
\* the test left out)
MixedIgnored(items) == FALSE
mixed_types(items) == ~all_str(items) /\ ~all_coin(items)

\* lines 169-180 with the budget b resolved; answered is the number of
\* replies received by then
Finish(coins, b, answered) ==
    LET kept == remove_conflicts(coins, objects_in_use)
        sel == coins_for_budget(kept, b)
    IN  /\ pc' = "done"
        /\ use_coins' = kept
        /\ use_coins_in' = caller_list(use_coins_in, kept)
        /\ filter_done' = TRUE
        /\ IF something_left(kept)
           THEN /\ selector_calls' = selector_calls + 1
                /\ selector_args' =
                     Append(selector_args,
                            [coins |-> kept, budget |-> b,
                             issued |-> Len(queries), answered |-> answered])
                /\ coin_fit' = sel.coin_fit
                /\ outcome' = IF sel.ok THEN GasData(sel.refs, b)
                                        ELSE Raised("InsufficientFundsError")
           ELSE /\ outcome' = Raised("NoFundingCoinsError")
                /\ UNCHANGED <<selector_calls, selector_args, coin_fit>>

\* lines 162-180 once the candidate coins are known (EmptyCheckFirst: the
\* filter and the test of line 172 moved before the dry run)
EmptyCheckFirst(coins, answered) ==
    IF ~something_left(remove_conflicts(coins, objects_in_use))
    THEN /\ Finish(coins, 0, answered)
         /\ UNCHANGED <<budget, queries>>
    ELSE IF ~budget_truthy(budget)
    THEN /\ pc' = "dry_run"
         /\ use_coins' = coins
         /\ queries' = Append(queries, DryRunTransactionKind)
         /\ UNCHANGED <<use_coins_in, budget, resVars>>
    ELSE /\ Finish(coins, budget.val, answered)
         /\ UNCHANGED <<budget, queries>>
ResolveBudget(coins, answered) ==
    IF ~budget_truthy(budget)
    THEN /\ pc' = "dry_run"
         /\ use_coins' = coins
         /\ queries' = Append(queries, DryRunTransactionKind)
         /\ UNCHANGED <<use_coins_in, budget, resVars>>
    ELSE /\ Finish(coins, budget.val, answered)
         /\ UNCHANGED <<budget, queries>>

\* lines 153-161 up to the first query (or lines 162-180 when there is none)
Start ==
    /\ pc = "start"
    /\ IF coins_truthy(use_coins_in)
       THEN IF all_str(use_coins_in.items)
            THEN /\ pc' = "fetch_ids"
                 /\ queries' = Append(queries, GetMultipleGasObjects)
                 /\ UNCHANGED <<use_coins, use_coins_in, budget, resVars>>
            ELSE IF mixed_types(use_coins_in.items)
            THEN /\ pc' = "done"
                 /\ outcome' = Raised("InvalidArgumentError")
                 /\ UNCHANGED <<use_coins, use_coins_in, budget, queries, coin_fit,
                                filter_done, selector_calls, selector_args>>
            ELSE ResolveBudget(use_coins_in.items, Len(replies))
       ELSE /\ pc' = "fetch_all"
            /\ queries' = Append(queries, GetCoins(0))
            /\ UNCHANGED <<use_coins, use_coins_in, budget, resVars>>
    /\ UNCHANGED <<budget_in, objects_in_use, coin_list, replies, pages, dry_reply>>
    /\ UNCHANGED selVars
    /\ UNCHANGED concVars
    /\ UNCHANGED grpVars

\* the coins the remote may answer a query for the identifiers ids with:
\* one coin per identifier asked for, in that order, with any balance
CoinsForIds(ids) ==
    {s \in [1..Len(ids) -> Coins] :
        \A i \in 1..Len(ids) : s[i].coin_object_id = ids[i].coin_object_id}

\* the results client.execute_query may give for GetMultipleGasObjects
IdsReplies(ids) ==
    {[is_ok |-> FALSE, data |-> <<>>]}
        \cup {[is_ok |-> TRUE, data |-> d] : d \in CoinsForIds(ids)}

\* lines 30-33: the coins of the result, or the ValueError of line 33
\* (SwallowIdsFailure: a failed query taken for one without coins)
SwallowIdsFailure(reply) == [ok |-> TRUE, coins |-> reply.data]
get_gas_objects(reply) ==
    IF reply.is_ok THEN [ok |-> TRUE, coins |-> reply.data]
                   ELSE [ok |-> FALSE, coins |-> <<>>]

\* lines 27-33 and the rest of get_gas_data: the reply to GetMultipleGasObjects
GetGasObjectsReply ==
    /\ pc = "fetch_ids"
    /\ \E reply \in IdsReplies(use_coins_in.items) :
       /\ replies' = Append(replies, reply.is_ok)
       /\ IF get_gas_objects(reply).ok
          THEN ResolveBudget(get_gas_objects(reply).coins, Len(replies) + 1)
          ELSE /\ pc' = "done"
               /\ outcome' = Raised("RemoteQueryError")
               /\ UNCHANGED <<use_coins, use_coins_in, budget, queries, coin_fit,
                              filter_done, selector_calls, selector_args>>
    /\ UNCHANGED <<budget_in, objects_in_use, coin_list, pages, dry_reply>>
    /\ UNCHANGED selVars
    /\ UNCHANGED concVars
    /\ UNCHANGED grpVars

\* the results client.execute_query may give for the k-th GetCoins query when
\* the list has room for room more coins: a failure, or a page of coins whose
\* next_cursor says whether a page follows and where (endCursor)
ListingReplies(room, k) ==
    {[is_ok |-> FALSE, data |-> <<>>, hasNextPage |-> FALSE, endCursor |-> 0]}
        \cup {[is_ok |-> TRUE, data |-> d, hasNextPage |-> h, endCursor |-> k] :
                d \in SeqsUpTo(Coins, room),
                h \in {x \in BOOLEAN : x => k < MaxPages}}

\* line 45: the page is added to coin_list (ReplacePage: it replaces the list;
\* DropOnFailure: a failed query empties the list)
ReplacePage(list, reply) == IF reply.is_ok THEN reply.data ELSE list
DropOnFailure(list, reply) == IF reply.is_ok THEN list \o reply.data ELSE <<>>
extended(list, reply) == IF reply.is_ok THEN list \o reply.data ELSE list

\* lines 44-55: the loop goes on after a page that reports a next one
\* (RetryOnFailure: it also goes on after a failed query; NeverStops: it
\* goes on whatever the result)
RetryOnFailure(reply) == ~reply.is_ok \/ reply.hasNextPage
NeverStops(reply) == TRUE
listing_continues(reply) == reply.is_ok /\ reply.hasNextPage

\* lines 47-51: the next query carries the cursor of the result at hand
\* (RestartQuery: it carries none)
RestartQuery(reply) == GetCoins(0)
next_page_query(reply) == GetCoins(reply.endCursor)

\* lines 43-56 and the rest of get_gas_data, for one result of a GetCoins
\* query
ListingStep(reply) ==
    /\ replies' = Append(replies, reply.is_ok)
    /\ pages' = IF reply.is_ok
                THEN Append(pages, [data |-> reply.data,
                                    hasNextPage |-> reply.hasNextPage,
                                    endCursor |-> reply.endCursor])
                ELSE pages
    /\ coin_list' = extended(coin_list, reply)
    /\ IF listing_continues(reply)
       THEN /\ CountOf("GetCoins") < MaxPages
            /\ queries' = Append(queries, next_page_query(reply))
            /\ UNCHANGED <<pc, use_coins, use_coins_in, budget, resVars>>
       ELSE ResolveBudget(extended(coin_list, reply), Len(replies) + 1)
    /\ UNCHANGED <<budget_in, objects_in_use, dry_reply>>
    /\ UNCHANGED selVars
    /\ UNCHANGED concVars
    /\ UNCHANGED grpVars

\* the reply to a GetCoins query
GetCoinsReply ==
    /\ pc = "fetch_all"
    /\ \E reply \in ListingReplies(MaxCoins - Len(coin_list), CountOf("GetCoins")) :
          ListingStep(reply)

\* the same with pages of one coin at most (ListSpec)
ListReply ==
    /\ pc = "fetch_all"
    /\ \E reply \in ListingReplies(IF Len(coin_list) < MaxCoins THEN 1 ELSE 0,
                                   CountOf("GetCoins")) :
          ListingStep(reply)

\* the results client.execute_query may give for the dry run: a failure, an
\* execution whose status is not SUCCESS, or a SUCCESS with its gas summary
DryReplies ==
    {[answered |-> TRUE, is_ok |-> FALSE, status |-> "", c_cost |-> 0, s_cost |-> 0],
     [answered |-> TRUE, is_ok |-> TRUE, status |-> "FAILURE", c_cost |-> 0,
      s_cost |-> 0]}
        \cup {[answered |-> TRUE, is_ok |-> TRUE, status |-> "SUCCESS",
               c_cost |-> c, s_cost |-> st] : c \in 0..MaxCost, st \in 0..MaxCost}

\* lines 77-95: the budget, or the ValueError of line 91 or of line 93
\* (FailureAsZero: a dry run that did not succeed taken for a budget of 0;
\* ComputationOnly: the storage cost left out)
FailureAsZero(reply) ==
    IF reply.is_ok /\ reply.status = "SUCCESS"
    THEN [ok |-> TRUE, error |-> "", budget |-> reply.c_cost + reply.s_cost]
    ELSE [ok |-> TRUE, error |-> "", budget |-> 0]
ComputationOnly(reply) ==
    IF ~reply.is_ok THEN [ok |-> FALSE, error |-> "TransportError", budget |-> 0]
    ELSE IF reply.status # "SUCCESS"
    THEN [ok |-> FALSE, error |-> "SimulationError", budget |-> 0]
    ELSE [ok |-> TRUE, error |-> "", budget |-> reply.c_cost]
dry_run_for_budget(reply) ==
    IF ~reply.is_ok THEN [ok |-> FALSE, error |-> "TransportError", budget |-> 0]
    ELSE IF reply.status # "SUCCESS"
    THEN [ok |-> FALSE, error |-> "SimulationError", budget |-> 0]
    ELSE [ok |-> TRUE, error |-> "", budget |-> reply.c_cost + reply.s_cost]

\* lines 77-95 and lines 169-180: the reply to the dry run
DryRunReply ==
    /\ pc = "dry_run"
    /\ \E reply \in DryReplies :
       /\ replies' = Append(replies, reply.is_ok)
       /\ dry_reply' = reply
       /\ IF dry_run_for_budget(reply).ok
          THEN /\ budget' = SomeBudget(dry_run_for_budget(reply).budget)
               /\ Finish(use_coins, dry_run_for_budget(reply).budget,
                         Len(replies) + 1)
          ELSE /\ pc' = "done"
               /\ outcome' = Raised(dry_run_for_budget(reply).error)
               /\ UNCHANGED <<use_coins, use_coins_in, budget, coin_fit,
                              filter_done, selector_calls, selector_args>>
    /\ UNCHANGED <<budget_in, objects_in_use, coin_list, queries, pages>>
    /\ UNCHANGED selVars
    /\ UNCHANGED concVars
    /\ UNCHANGED grpVars

(* ------------------ get_gas_data on a frame of its own ----------------- *)
\* The same code as a function of one call's local variables and of the one
\* object two calls can have in common, so that two calls can run side by
\* side (ConcSpec).  Every invocation of get_gas_data has its own locals:
\* call i works on frames[frame_of(i)].  What the calls share is what their
\* caller passes to both: caller_coins is a list of coins the caller holds
\* and may give as use_coins to either call or to both.  Such a call's local
\* name use_coins is bound to that very list from its entry to line 170, with
\* the dry run of lines 162-168 in between.
Calls == {"a", "b"}
frame_of(i) == i

\* the use_coins argument that is the caller's list itself
CallerCoins == [given |-> TRUE, ref |-> "caller_coins"]
IsCallerCoins(arg) == "ref" \in DOMAIN arg

\* what the use_coins argument holds when h is in the caller's list
arg_list(args, h) == IF IsCallerCoins(args.use_coins) THEN h ELSE args.use_coins

\* the locals of a call not yet entered; aliased: the local name use_coins is
\* bound to the caller's list
NewFrame ==
    [pc |-> "start", use_coins |-> <<>>, aliased |-> FALSE, coin_list |-> <<>>,
     budget |-> NoBudget, listed |-> 0, outcome |-> Pending]

\* what the local name use_coins holds when h is in the caller's list
local_coins(fr, h) == IF fr.aliased THEN h.items ELSE fr.use_coins

\* a call's locals together with the caller's list
FrameAndList(fr, h) == [fr |-> fr, list |-> h]

\* lines 169-180 with the budget b resolved: line 170 reads the list the
\* local name is bound to and binds the name to the filtered one
finish_frame(args, fr, h, b) ==
    LET kept == remove_conflicts(local_coins(fr, h), args.objects_in_use)
        sel == coins_for_budget(kept, b)
    IN  FrameAndList(
            [fr EXCEPT !.pc = "done",
                       !.use_coins = kept,
                       !.aliased = FALSE,
                       !.outcome = IF something_left(kept)
                                   THEN IF sel.ok THEN GasData(sel.refs, b)
                                                  ELSE Raised("InsufficientFundsError")
                                   ELSE Raised("NoFundingCoinsError")],
            IF fr.aliased THEN caller_list(h, kept) ELSE h)

\* lines 162-180 once the candidate coins are known
resolve_frame(args, fr, h) ==
    IF ~budget_truthy(fr.budget)
    THEN FrameAndList([fr EXCEPT !.pc = "dry_run"], h)
    ELSE finish_frame(args, fr, h, fr.budget.val)

\* lines 153-161 up to the first query (or lines 162-180 when there is none)
start_frame(args, h) ==
    LET fr == [NewFrame EXCEPT !.budget = args.budget]
        given == arg_list(args, h)
    IN  IF coins_truthy(given)
        THEN IF all_str(given.items)
             THEN FrameAndList([fr EXCEPT !.pc = "fetch_ids"], h)
             ELSE IF mixed_types(given.items)
             THEN FrameAndList([fr EXCEPT !.pc = "done",
                                          !.outcome = Raised("InvalidArgumentError")],
                               h)
             ELSE IF IsCallerCoins(args.use_coins)
             THEN resolve_frame(args, [fr EXCEPT !.aliased = TRUE], h)
             ELSE resolve_frame(args, [fr EXCEPT !.use_coins = given.items], h)
        ELSE FrameAndList([fr EXCEPT !.pc = "fetch_all", !.listed = 1], h)

\* the call goes on from the query it waits on with that query's result
reply_frame(args, fr, h, reply) ==
    CASE fr.pc = "fetch_ids" ->
            IF get_gas_objects(reply).ok
            THEN resolve_frame(args,
                               [fr EXCEPT !.use_coins = get_gas_objects(reply).coins],
                               h)
            ELSE FrameAndList([fr EXCEPT !.pc = "done",
                                         !.outcome = Raised("RemoteQueryError")], h)
      [] fr.pc = "fetch_all" ->
            LET f == [fr EXCEPT !.coin_list = extended(@, reply)]
            IN  IF listing_continues(reply)
                THEN FrameAndList([f EXCEPT !.listed = @ + 1], h)
                ELSE resolve_frame(args, [f EXCEPT !.use_coins = f.coin_list], h)
      [] fr.pc = "dry_run" ->
            IF dry_run_for_budget(reply).ok
            THEN finish_frame(args,
                              [fr EXCEPT !.budget =
                                    SomeBudget(dry_run_for_budget(reply).budget)],
                              h, dry_run_for_budget(reply).budget)
            ELSE FrameAndList(
                    [fr EXCEPT !.pc = "done",
                               !.outcome = Raised(dry_run_for_budget(reply).error)],
                    h)
      [] OTHER -> FrameAndList(fr, h)

\* the call run alone: entered with args while the caller's list holds h,
\* given the results log in order, no other call in between
RECURSIVE RunFrom(_, _, _)
RunFrom(args, st, log) ==
    IF log = <<>> THEN st
    ELSE RunFrom(args, reply_frame(args, st.fr, st.list, Head(log)), Tail(log))
Solo(args, h, log) == RunFrom(args, start_frame(args, h), log)

\* the lists of coins the caller may hold
CallerLists ==
    {SomeCoins(<<CoinItem("c1", 1)>>),
     SomeCoins(<<CoinItem("c1", 1), CoinItem("c2", 1)>>),
     SomeCoins(<<CoinItem("c2", 1), CoinItem("c1", 1)>>)}

\* the arguments of the calls run side by side: calls given nothing in common
\* (ConcArgs), or calls both given the caller's list (SharedListArgs)
ConcArgs ==
    [budget : {NoBudget, SomeBudget(1)},
     use_coins : {NoCoins, SomeCoins(<<>>), SomeCoins(<<StrItem("c1")>>)},
     objects_in_use : {{}, {"c1"}}]
SharedListArgs ==
    [budget : {NoBudget, SomeBudget(1)},
     use_coins : {CallerCoins},
     objects_in_use : {{}, {"c1"}}]

\* the results the query a frame waits on may give, coins of balance 1 and
\* pages of one coin only
ConcReplies(args, fr) ==
    CASE fr.pc = "fetch_ids" ->
            {r \in IdsReplies(args.use_coins.items) :
                \A k \in 1..Len(r.data) : r.data[k].balance = 1}
      [] fr.pc = "fetch_all" ->
            {r \in ListingReplies(1, fr.listed) :
                r.is_ok => Len(r.data) = 1 /\ r.data[1].balance = 1}
      [] fr.pc = "dry_run" -> {r \in DryReplies : r.s_cost = 0}
      [] OTHER -> {}

\* "between entry and return" for the call other than i
OtherRunning(i) ==
    \E j \in Calls \ {i} :
        conc_calls[j].entered /\ frames[frame_of(j)].pc # "done"

\* call i is entered and runs up to its first query
ConcStart(i) ==
    /\ ~conc_calls[i].entered
    /\ frames[frame_of(i)].pc = "start"
    /\ LET st == start_frame(conc_calls[i].args, caller_coins)
       IN  /\ frames' = [frames EXCEPT ![frame_of(i)] = st.fr]
           /\ caller_coins' = st.list
    /\ conc_calls' = [conc_calls EXCEPT ![i].entered = TRUE,
                                        ![i].list_at_entry = caller_coins]
    /\ overlapped' = (overlapped \/ OtherRunning(i))
    /\ UNCHANGED callVars
    /\ UNCHANGED selVars
    /\ UNCHANGED grpVars

\* the query call i waits on returns and the call runs up to its next one
ConcReply(i) ==
    /\ conc_calls[i].entered
    /\ \E reply \in ConcReplies(conc_calls[i].args, frames[frame_of(i)]) :
       LET st == reply_frame(conc_calls[i].args, frames[frame_of(i)],
                             caller_coins, reply)
       IN  /\ frames' = [frames EXCEPT ![frame_of(i)] = st.fr]
           /\ caller_coins' = st.list
           /\ conc_calls' = [conc_calls EXCEPT ![i].log = Append(@, reply)]
    /\ overlapped' = (overlapped \/ OtherRunning(i))
    /\ UNCHANGED callVars
    /\ UNCHANGED selVars
    /\ UNCHANGED grpVars

\* no call running side by side (Spec, SelSpec, GroupSpec)
ConcIdle ==
    /\ frames = [i \in Calls |-> NewFrame]
    /\ conc_calls = [i \in Calls |->
                       [args |-> [budget |-> NoBudget, use_coins |-> NoCoins,
                                  objects_in_use |-> {}],
                        entered |-> FALSE, log |-> <<>>,
                        list_at_entry |-> NoCoins]]
    /\ caller_coins = NoCoins
    /\ overlapped = FALSE

(* --------------------------- ProfileGroup ------------------------------ *)
\* confgroup.py.  Addresses, private key strings, alias names, public keys,
\* profile names and urls are opaque strings.
Addresses == {"addr1", "addr2"}
KeyStrings == {"key1", "key2"}
AliasNames == {"alias1", "alias2", "alias3"}
PublicKeys == {"pub1"}
ProfileNames == {"devnet", "testnet"}
Urls == {"url1"}

\* lines 19-41: the dataclasses
ProfileAlias(name, pub) == [alias |-> name, public_key_base64 |-> pub]
ProfileKey(k) == [private_key_base64 |-> k]
Profile(name, url) == [profile_name |-> name, url |-> url]

ProfileAliases == {ProfileAlias(n, p) : n \in AliasNames, p \in PublicKeys}
ProfileKeys == {ProfileKey(k) : k \in KeyStrings}
Profiles == {Profile(n, u) : n \in ProfileNames, u \in Urls}

\* next(filter(pred, list), False): the position of the first element of s
\* that satisfies the test, 0 for False
FirstWhere(s, hits) ==
    IF \E i \in 1..Len(s) : i \in hits
    THEN CHOOSE i \in 1..Len(s) : i \in hits /\ \A j \in 1..(i - 1) : j \notin hits
    ELSE 0

\* lines 56-77
profile_exists(g, profile_name) ==
    FirstWhere(g.profiles,
               {i \in 1..Len(g.profiles) : g.profiles[i].profile_name = profile_name})
alias_exists(g, alias_name) ==
    FirstWhere(g.alias_list,
               {i \in 1..Len(g.alias_list) : g.alias_list[i].alias = alias_name})
address_exists(g, address) ==
    FirstWhere(g.address_list,
               {i \in 1..Len(g.address_list) : g.address_list[i] = address})
key_exists(g, key_string) ==
    FirstWhere(g.key_list,
               {i \in 1..Len(g.key_list) : g.key_list[i].private_key_base64 = key_string})

\* list.index(x): the position of the first element equal to x, 0 for the
\* ValueError
index(s, x) == FirstWhere(s, {i \in 1..Len(s) : s[i] = x})

\* how an operation ended
Returned(g, v) == [group |-> g, raised |-> FALSE, error |-> "", ret |-> v]
Raises(g, e) == [group |-> g, raised |-> TRUE, error |-> e, ret |-> ""]

\* lines 84-89: the active_address setter (SetAddressUnchecked: line 87
\* left out)
SetAddressUnchecked(g, change_to) ==
    Returned([g EXCEPT !.using_address = change_to], change_to)
set_active_address(g, change_to) ==
    IF index(g.address_list, change_to) = 0
    THEN Raises(g, "NotInList")
    ELSE Returned([g EXCEPT !.using_address = change_to], change_to)

\* lines 97-106: the active_alias setter
set_active_alias(g, change_to) ==
    LET res == alias_exists(g, change_to)
        aliindx == index(g.alias_list, g.alias_list[res])
    IN  IF res # 0
        THEN IF aliindx > Len(g.address_list)
             THEN Raises(g, "IndexError")
             ELSE Returned([g EXCEPT !.using_address = g.address_list[aliindx]],
                           g.alias_list[res].alias)
        ELSE Raises(g, "AliasNotFound")

\* lines 132-142 (ReplaceUnchecked: to_alias not looked up)
ReplaceUnchecked(g, from_alias, to_alias) ==
    LET res == alias_exists(g, from_alias)
        aliindx == index(g.alias_list, g.alias_list[res])
    IN  IF res # 0
        THEN Returned([g EXCEPT !.alias_list[res].alias = to_alias],
                      g.address_list[aliindx])
        ELSE Raises(g, "AliasNotFound")
replace_alias_name(g, from_alias, to_alias) ==
    LET res == alias_exists(g, from_alias)
        aliindx == index(g.alias_list, g.alias_list[res])
    IN  IF res # 0
        THEN IF alias_exists(g, to_alias) = 0
             THEN IF aliindx > Len(g.address_list)
                  THEN Raises([g EXCEPT !.alias_list[res].alias = to_alias],
                              "IndexError")
                  ELSE Returned([g EXCEPT !.alias_list[res].alias = to_alias],
                                g.address_list[aliindx])
             ELSE Raises(g, "AliasExists")
        ELSE Raises(g, "AliasNotFound")

\* lines 152-160: the active_profile setter
set_active_profile(g, change_to) ==
    IF profile_exists(g, change_to) # 0
    THEN Returned([g EXCEPT !.using_profile = change_to],
                  g.profiles[profile_exists(g, change_to)])
    ELSE Raises(g, "ProfileNotFound")

\* lines 262-287.  The raise of line 285 stands after the if statement, not
\* in an else branch of it: it is reached on every path that line 274 has
\* not left.  (AddBeforeAliasCheck: the address and the key appended before
\* the alias is looked up; AddIgnoringAlias: the alias not looked up at all)
AddBeforeAliasCheck(g, new_address, new_alias, new_key, make_active) ==
    IF key_exists(g, new_key.private_key_base64) = 0
    THEN IF alias_exists(g, new_alias.alias) # 0
         THEN Raises([g EXCEPT !.address_list = Append(@, new_address),
                               !.key_list = Append(@, new_key)],
                     "AliasExists")
         ELSE Raises([g EXCEPT !.address_list = Append(@, new_address),
                               !.key_list = Append(@, new_key),
                               !.alias_list = Append(@, new_alias),
                               !.using_address = IF make_active THEN new_address
                                                                 ELSE @],
                     "KeyExists")
    ELSE Raises(g, "KeyExists")
AddIgnoringAlias(g, new_address, new_alias, new_key, make_active) ==
    IF key_exists(g, new_key.private_key_base64) = 0
    THEN Raises([g EXCEPT !.address_list = Append(@, new_address),
                          !.key_list = Append(@, new_key),
                          !.alias_list = Append(@, new_alias),
                          !.using_address = IF make_active THEN new_address
                                                            ELSE @],
                "KeyExists")
    ELSE Raises(g, "KeyExists")
add_keypair_and_parts(g, new_address, new_alias, new_key, make_active) ==
    IF key_exists(g, new_key.private_key_base64) = 0
    THEN IF alias_exists(g, new_alias.alias) # 0
         THEN Raises(g, "AliasExists")
         ELSE Raises([g EXCEPT !.address_list = Append(@, new_address),
                               !.key_list = Append(@, new_key),
                               !.alias_list = Append(@, new_alias),
                               !.using_address = IF make_active THEN new_address
                                                                 ELSE @],
                     "KeyExists")
    ELSE Raises(g, "KeyExists")

\* lines 289-296 (AddProfileUnchecked: the name not looked up)
AddProfileUnchecked(g, new_prf, make_active) ==
    LET added == [g EXCEPT !.profiles = Append(@, new_prf)]
    IN  IF make_active
        THEN Returned(set_active_profile(added, new_prf.profile_name).group, "")
        ELSE Returned(added, "")
add_profile(g, new_prf, make_active) ==
    IF profile_exists(g, new_prf.profile_name) # 0
    THEN Raises(g, "ProfileExists")
    ELSE LET added == [g EXCEPT !.profiles = Append(@, new_prf)]
         IN  IF make_active
             THEN Returned(set_active_profile(added, new_prf.profile_name).group, "")
             ELSE Returned(added, "")

\* one operation on the group: the group it leaves, and what it was
Apply(op, args, res) ==
    /\ group' = res.group
    /\ last_op' = [op |-> op, args |-> args, raised |-> res.raised,
                   error |-> res.error, ret |-> res.ret]
    /\ UNCHANGED callVars
    /\ UNCHANGED selVars
    /\ UNCHANGED concVars

AddKeypairAndParts ==
    \E new_address \in Addresses, new_alias \in ProfileAliases,
       new_key \in ProfileKeys, make_active \in BOOLEAN :
        Apply("add_keypair_and_parts",
              <<new_address, new_alias, new_key, make_active>>,
              add_keypair_and_parts(group, new_address, new_alias, new_key,
                                    make_active))

ReplaceAliasName ==
    \E from_alias \in AliasNames, to_alias \in AliasNames :
        Apply("replace_alias_name", <<from_alias, to_alias>>,
              replace_alias_name(group, from_alias, to_alias))

SetActiveAddress ==
    \E change_to \in Addresses :
        Apply("active_address", <<change_to>>, set_active_address(group, change_to))

SetActiveAlias ==
    \E change_to \in AliasNames :
        Apply("active_alias", <<change_to>>, set_active_alias(group, change_to))

AddProfile ==
    \E new_prf \in Profiles, make_active \in BOOLEAN :
        Apply("add_profile", <<new_prf, make_active>>,
              add_profile(group, new_prf, make_active))

SetActiveProfile ==
    \E change_to \in ProfileNames :
        Apply("active_profile", <<change_to>>, set_active_profile(group, change_to))

\* no operation yet
NoOp ==
    [op |-> "", args |-> <<>>, raised |-> FALSE, error |-> "", ret |-> ""]

\* a group of one address with its key and alias, and one profile
OneEntryGroup(address, key, ali, prf) ==
    [group_name |-> "group", using_profile |-> prf.profile_name,
     using_address |-> address, alias_list |-> <<ali>>, key_list |-> <<key>>,
     address_list |-> <<address>>, profiles |-> <<prf>>]

\* no group at hand (Spec, SelSpec, ConcSpec)
GroupIdle ==
    /\ group = OneEntryGroup("addr1", ProfileKey("key1"),
                             ProfileAlias("alias1", "pub1"), Profile("devnet", "url1"))
    /\ last_op = NoOp

\* the arguments a caller may pass.  The budget is None or an int >= 0: what
\* becomes of a negative one is decided by the u64 field of bcs.GasData,
\* outside this file.
BudgetArgs == {NoBudget} \cup {SomeBudget(n) : n \in 0..MaxBudget}
UseCoinsArgs ==
    {NoCoins} \cup {SomeCoins(s) : s \in SeqsUpTo(StrItems \cup Coins, MaxCoins)}

Init ==
    /\ pc = "start"
    /\ budget_in \in BudgetArgs
    /\ use_coins_in \in UseCoinsArgs
    /\ objects_in_use \in SUBSET CoinIds
    /\ use_coins = <<>>
    /\ coin_list = <<>>
    /\ budget = budget_in
    /\ queries = <<>>
    /\ replies = <<>>
    /\ pages = <<>>
    /\ dry_reply = NoDryReply
    /\ outcome = Pending
    /\ coin_fit = <<>>
    /\ filter_done = FALSE
    /\ selector_calls = 0
    /\ selector_args = <<>>
    /\ sel_coins = <<>>
    /\ sel_budget = 0
    /\ sel_out = SelIdle
    /\ ConcIdle
    /\ GroupIdle

Next ==
    \/ Start
    \/ GetGasObjectsReply
    \/ GetCoinsReply
    \/ DryRunReply

Spec == Init /\ [][Next]_vars

(* ------------------ the listing on its own (ListSpec) ------------------ *)
\* Calls that list the payer's coins, with a budget given and nothing
\* reserved.  client.execute_query is synchronous: the loop of lines 43-55
\* takes its next step as soon as the query returns, which is the weak
\* fairness of ListReply; the remote answers the last page it has with
\* hasNextPage false.
ListInit ==
    /\ Init
    /\ ~coins_truthy(use_coins_in)
    /\ budget_truthy(budget_in)
    /\ objects_in_use = {}

ListNext ==
    \/ Start
    \/ ListReply

ListSpec == ListInit /\ [][ListNext]_vars /\ WF_vars(ListReply)

(* ------------------- the selector on its own (SelSpec) ----------------- *)
Select ==
    /\ sel_out.state = "input"
    /\ LET r == coins_for_budget(sel_coins, sel_budget)
       IN  sel_out' = [state |-> IF r.ok THEN "returned" ELSE "raised",
                       coin_fit |-> r.coin_fit, refs |-> r.refs, accum |-> r.accum]
    /\ UNCHANGED <<sel_coins, sel_budget>>
    /\ UNCHANGED callVars
    /\ UNCHANGED concVars
    /\ UNCHANGED grpVars

SelInit ==
    /\ sel_coins \in SeqsUpTo(CoinsUpTo(MaxSelBal), MaxSelLen)
    /\ sel_budget \in 1..MaxSelBudget
    /\ sel_out = SelIdle
    /\ pc = "done"
    /\ budget_in = NoBudget
    /\ use_coins_in = NoCoins
    /\ objects_in_use = {}
    /\ use_coins = <<>>
    /\ coin_list = <<>>
    /\ budget = NoBudget
    /\ queries = <<>>
    /\ replies = <<>>
    /\ outcome = Pending
    /\ coin_fit = <<>>
    /\ filter_done = FALSE
    /\ selector_calls = 0
    /\ selector_args = <<>>
    /\ pages = <<>>
    /\ dry_reply = NoDryReply
    /\ ConcIdle
    /\ GroupIdle

SelNext == Select

SelSpec == SelInit /\ [][SelNext]_vars

(* ---------------- two calls side by side (ConcSpec) -------------------- *)
ConcInit ==
    /\ frames = [i \in Calls |-> NewFrame]
    /\ \/ /\ conc_calls \in [Calls -> [args : ConcArgs, entered : {FALSE},
                                        log : {<<>>}, list_at_entry : {NoCoins}]]
          /\ caller_coins = NoCoins
       \/ /\ conc_calls \in [Calls -> [args : SharedListArgs, entered : {FALSE},
                                        log : {<<>>}, list_at_entry : {NoCoins}]]
          /\ caller_coins \in CallerLists
    /\ overlapped = FALSE
    /\ pc = "done"
    /\ budget_in = NoBudget
    /\ use_coins_in = NoCoins
    /\ objects_in_use = {}
    /\ use_coins = <<>>
    /\ coin_list = <<>>
    /\ budget = NoBudget
    /\ queries = <<>>
    /\ replies = <<>>
    /\ outcome = Pending
    /\ coin_fit = <<>>
    /\ filter_done = FALSE
    /\ selector_calls = 0
    /\ selector_args = <<>>
    /\ pages = <<>>
    /\ dry_reply = NoDryReply
    /\ sel_coins = <<>>
    /\ sel_budget = 0
    /\ sel_out = SelIdle
    /\ GroupIdle

ConcNext ==
    \/ \E i \in Calls : ConcStart(i)
    \/ \E i \in Calls : ConcReply(i)

ConcSpec == ConcInit /\ [][ConcNext]_vars

(* ------------------- a ProfileGroup in use (GroupSpec) ----------------- *)
\* The groups to start from: one or two addresses, each with its key and its
\* alias at the same position, keys and alias names pairwise distinct, the
\* address in use one of the list, one profile, in use.
GroupInit ==
    /\ \E address \in Addresses, key \in ProfileKeys, ali \in ProfileAliases,
          prf \in Profiles :
          \/ group = OneEntryGroup(address, key, ali, prf)
          \/ \E address2 \in Addresses, key2 \in ProfileKeys \ {key},
                ali2 \in {a \in ProfileAliases : a.alias # ali.alias} :
                \E using \in {address, address2} :
                    group = [OneEntryGroup(address, key, ali, prf) EXCEPT
                                !.address_list = <<address, address2>>,
                                !.key_list = <<key, key2>>,
                                !.alias_list = <<ali, ali2>>,
                                !.using_address = using]
    /\ last_op = NoOp
    /\ ConcIdle
    /\ pc = "done"
    /\ budget_in = NoBudget
    /\ use_coins_in = NoCoins
    /\ objects_in_use = {}
    /\ use_coins = <<>>
    /\ coin_list = <<>>
    /\ budget = NoBudget
    /\ queries = <<>>
    /\ replies = <<>>
    /\ outcome = Pending
    /\ coin_fit = <<>>
    /\ filter_done = FALSE
    /\ selector_calls = 0
    /\ selector_args = <<>>
    /\ pages = <<>>
    /\ dry_reply = NoDryReply
    /\ sel_coins = <<>>
    /\ sel_budget = 0
    /\ sel_out = SelIdle

GroupNext ==
    \/ AddKeypairAndParts
    \/ ReplaceAliasName
    \/ SetActiveAddress
    \/ SetActiveAlias
    \/ AddProfile
    \/ SetActiveProfile

GroupSpec == GroupInit /\ [][GroupNext]_vars

(* ------------------------------ claims --------------------------------- *)
\* the position of the first coin of s whose balance is above b (0: none)
FirstAbove(s, b) ==
    IF \E i \in 1..Len(s) : s[i].balance > b
    THEN CHOOSE i \in 1..Len(s) :
            /\ s[i].balance > b
            /\ \A j \in 1..(i - 1) : s[j].balance <= b
    ELSE 0

\* r picks elements of s at increasing positions
IsSubList(r, s) ==
    \E f \in [1..Len(r) -> 1..Len(s)] :
        /\ \A i \in 1..Len(r) : s[f[i]] = r[i]
        /\ \A i \in 1..Len(r), j \in 1..Len(r) : i < j => f[i] < f[j]

Front(s) == SubSeq(s, 1, Len(s) - 1)

SelApplied == sel_out.state # "input"

\* C1: with a budget > 0, when some coin's balance is strictly greater than
\* the budget, the selector returns exactly one reference, that of the first
\* such coin in input order, whatever the other coins are.
C1_FirstExceedingCoin ==
    (SelApplied /\ FirstAbove(sel_coins, sel_budget) # 0) =>
        /\ sel_out.state = "returned"
        /\ sel_out.coin_fit = <<sel_coins[FirstAbove(sel_coins, sel_budget)]>>
        /\ sel_out.refs =
             <<[ObjectID |->
                  sel_coins[FirstAbove(sel_coins, sel_budget)].coin_object_id]>>

\* the first exceeding coin is the second of three, after a coin that does
\* not exceed and before a larger coin with another identifier
C1_Witness ==
    /\ sel_out.state = "returned"
    /\ Len(sel_coins) = 3
    /\ sel_coins[1].balance <= sel_budget
    /\ sel_coins[2].balance > sel_budget
    /\ sel_coins[3].balance > sel_coins[2].balance
    /\ sel_coins[3].coin_object_id # sel_coins[2].coin_object_id
    /\ sel_out.refs = <<[ObjectID |-> sel_coins[2].coin_object_id]>>

\* C2: for a non-empty coin list and 0 < budget <= total balance, the selector
\* returns a sub-list of the candidates whose balances sum to at least the
\* budget, and without its last-added coin the sum is strictly below the budget.
C2_CoversBudgetMinimally ==
    (SelApplied /\ sel_coins # <<>> /\ sel_budget > 0
                /\ sel_budget <= SumBalances(sel_coins)) =>
        /\ sel_out.state = "returned"
        /\ sel_out.coin_fit # <<>>
        /\ IsSubList(sel_out.coin_fit, sel_coins)
        /\ Len(sel_out.refs) = Len(sel_out.coin_fit)
        /\ \A i \in 1..Len(sel_out.refs) :
              sel_out.refs[i].ObjectID = sel_out.coin_fit[i].coin_object_id
        /\ SumBalances(sel_out.coin_fit) >= sel_budget
        /\ SumBalances(Front(sel_out.coin_fit)) < sel_budget

\* accumulation of two coins that reach the budget exactly, a third left over
C2_Witness ==
    /\ sel_out.state = "returned"
    /\ Len(sel_coins) = 3
    /\ FirstAbove(sel_coins, sel_budget) = 0
    /\ Len(sel_out.coin_fit) = 2
    /\ SumBalances(sel_out.coin_fit) = sel_budget
    /\ sel_coins[3].balance > 0

\* C3: with a budget > 0, when the total balance of the candidates (the empty
\* list included) is strictly below the budget, the selector raises the
\* insufficient-funds error and returns no list, not even a partial one.
C3_InsufficientFunds ==
    (SelApplied /\ sel_budget > 0 /\ SumBalances(sel_coins) < sel_budget) =>
        /\ sel_out.state = "raised"
        /\ sel_out.refs = <<>>
        /\ sel_out.coin_fit = <<>>

\* two coins with funds, one short of the budget
C3_Witness ==
    /\ sel_out.state = "raised"
    /\ Len(sel_coins) = 2
    /\ sel_coins[1].balance > 0
    /\ sel_coins[2].balance > 0
    /\ SumBalances(sel_coins) = sel_budget - 1

\* C4: no reference of a returned GasData names an object of objects_in_use,
\* however the candidates were obtained.
C4_ReservedNeverPaid ==
    outcome.kind = "GasData" =>
        \A i \in 1..Len(outcome.payment) :
            outcome.payment[i].ObjectID \notin objects_in_use

\* reserved = {c1}, coins = [c1: 2, c2: 2], budget 1: c1 would have been the
\* single-coin pick, c2 is paid with
C4_Witness ==
    /\ outcome.kind = "GasData"
    /\ objects_in_use = {"c1"}
    /\ use_coins_in = SomeCoins(<<CoinItem("c1", 2), CoinItem("c2", 2)>>)
    /\ budget_in = SomeBudget(1)
    /\ outcome.payment = <<[ObjectID |-> "c2"]>>

\* C5: the budget of a returned GasData is at most the total balance of the
\* coins its payment list refers to.
C5_BudgetCovered ==
    outcome.kind = "GasData" =>
        /\ Len(outcome.payment) = Len(coin_fit)
        /\ \A i \in 1..Len(coin_fit) :
              outcome.payment[i].ObjectID = coin_fit[i].coin_object_id
        /\ outcome.budget <= SumBalances(coin_fit)

\* an estimated budget paid exactly by two coins listed for the payer
C5_Witness ==
    /\ outcome.kind = "GasData"
    /\ ~budget_in.given
    /\ ~use_coins_in.given
    /\ Len(outcome.payment) = 2
    /\ outcome.budget > 0
    /\ outcome.budget = SumBalances(coin_fit)

\* C6: a call given an explicit budget issues no dry run, and no call issues
\* more than one dry run.
C6_DryRunOnlyWithoutBudget ==
    /\ budget_in.given => CountOf("DryRunTransactionKind") = 0
    /\ CountOf("DryRunTransactionKind") <= 1

\* C7: a call in which some remote query reported failure ends with an error
\* and returns no GasData.
C7_QueryFailureAborts ==
    (pc = "done" /\ \E i \in 1..Len(replies) : ~replies[i]) =>
        outcome.kind = "error"

\* C8: when nothing is left of the candidates once the reserved identifiers
\* are removed, the call fails with the no-funding-coins error (never the
\* insufficient-funds error) and the selector is not invoked.
C8_NoFundingCoins ==
    /\ (filter_done /\ use_coins = <<>>) =>
          /\ outcome = Raised("NoFundingCoinsError")
          /\ selector_calls = 0
    /\ (pc = "done" /\ \A i \in 1..Len(use_coins) :
                          use_coins[i].coin_object_id \in objects_in_use) =>
          /\ outcome.kind = "error"
          /\ outcome.error # "InsufficientFundsError"
          /\ selector_calls = 0

\* every explicit coin is reserved: the filter leaves nothing
C8_Witness ==
    /\ filter_done
    /\ use_coins = <<>>
    /\ Len(use_coins_in.items) = 2
    /\ budget_in.given
    /\ budget_in.val > 0
    /\ outcome = Raised("NoFundingCoinsError")

\* C9: an explicit list holding both identifiers and coins makes the call
\* raise the invalid-argument error, with no GasData and no query issued.
C9_MixedListRejected ==
    (pc # "start"
       /\ \E i \in 1..Len(use_coins_in.items) : use_coins_in.items[i].kind = "str"
       /\ \E j \in 1..Len(use_coins_in.items) : use_coins_in.items[j].kind = "coin") =>
        /\ pc = "done"
        /\ outcome = Raised("InvalidArgumentError")
        /\ queries = <<>>

\* a coin followed by an identifier, no budget given
C9_Witness ==
    /\ pc = "done"
    /\ Len(use_coins_in.items) = 2
    /\ use_coins_in.items[1].kind = "coin"
    /\ use_coins_in.items[2].kind = "str"
    /\ ~budget_in.given
    /\ outcome = Raised("InvalidArgumentError")

\* C10: an explicit budget that is zero or negative makes the call raise the
\* invalid-argument error and return no GasData.
C10_NonPositiveBudgetRejected ==
    (pc = "done" /\ budget_in.given /\ budget_in.val <= 0) =>
        outcome = Raised("InvalidArgumentError")

\* the coins of the pages, in page order
RECURSIVE ConcatPages(_)
ConcatPages(ps) == IF ps = <<>> THEN <<>> ELSE ps[1].data \o ConcatPages(Tail(ps))

\* the call lists the payer's coins, and no listing query has failed so far
ListingAllOk ==
    /\ pc # "start"
    /\ ~coins_truthy(use_coins_in)
    /\ \A i \in 1..Len(replies) : queries[i].node = "GetCoins" => replies[i]

\* C11: with the budget absent, a dry run that executes with a status other
\* than success makes the call raise the simulation error, and one that cannot
\* be executed the transport error; neither yields a budget (0 included), a
\* call of the selector or GasData.
C11_DryRunFailureRaises ==
    (dry_reply.answered /\ ~(dry_reply.is_ok /\ dry_reply.status = "SUCCESS")) =>
        /\ pc = "done"
        /\ outcome = Raised(IF dry_reply.is_ok THEN "SimulationError"
                                                ELSE "TransportError")
        /\ budget = budget_in
        /\ selector_calls = 0
        /\ ~filter_done

\* no budget given, coins at hand that a budget of 0 would have selected from,
\* and the dry run reports a failed execution
C11_Witness ==
    /\ ~budget_in.given
    /\ dry_reply.answered
    /\ dry_reply.is_ok
    /\ dry_reply.status = "FAILURE"
    /\ use_coins # <<>>
    /\ objects_in_use = {}
    /\ outcome = Raised("SimulationError")

\* C12: after a successful dry run the resolved budget, the selector's
\* threshold and the budget of the returned GasData are the reported
\* computation cost plus the reported storage cost.
C12_BudgetIsCostSum ==
    (dry_reply.answered /\ dry_reply.is_ok /\ dry_reply.status = "SUCCESS") =>
        /\ budget = SomeBudget(dry_reply.c_cost + dry_reply.s_cost)
        /\ \A i \in 1..Len(selector_args) :
              selector_args[i].budget = dry_reply.c_cost + dry_reply.s_cost
        /\ outcome.kind = "GasData" =>
              outcome.budget = dry_reply.c_cost + dry_reply.s_cost

\* no budget given, both costs 1, GasData with budget 2
C12_Witness ==
    /\ ~budget_in.given
    /\ dry_reply.c_cost = 1
    /\ dry_reply.s_cost = 1
    /\ selector_calls = 1
    /\ outcome.kind = "GasData"
    /\ outcome.budget = 2

\* C13: as long as every listing query succeeds, _get_all_gas_objects issues
\* one query per page, the first without a cursor and each later one with the
\* cursor of the page before it, stops at the first page reporting no next
\* page, and its list is the pages' coins in page order, none left out.
C13_PagesFollowed ==
    ListingAllOk =>
        /\ CountOf("GetCoins") = Len(pages) + (IF pc = "fetch_all" THEN 1 ELSE 0)
        /\ queries[1] = GetCoins(0)
        /\ \A k \in 2..CountOf("GetCoins") :
              /\ queries[k].node = "GetCoins"
              /\ queries[k].next_page = pages[k - 1].endCursor
        /\ \A k \in 1..Len(pages) :
              pages[k].hasNextPage <=> (k < Len(pages) \/ pc = "fetch_all")
        /\ coin_list = ConcatPages(pages)
        /\ pc = "dry_run" => use_coins = coin_list

\* two pages of one coin each, both answered
C13_Witness ==
    /\ ListingAllOk
    /\ pc = "done"
    /\ Len(pages) = 2
    /\ Len(pages[1].data) = 1
    /\ Len(pages[2].data) = 1
    /\ pages[1].data # pages[2].data

\* C14: when the first listing query fails, _get_all_gas_objects returns the
\* empty list without raising and issues no further listing query.
C14_FirstPageFailure ==
    (pc # "start" /\ ~coins_truthy(use_coins_in) /\ Len(replies) >= 1
                  /\ ~replies[1]) =>
        /\ CountOf("GetCoins") = 1
        /\ pc # "fetch_all"
        /\ coin_list = <<>>
        /\ use_coins = <<>>
        /\ CountOf("DryRunTransactionKind") = 1 \/ filter_done
        /\ outcome.error # "RemoteQueryError"

\* the first listing query fails and the call goes on to find no coins
C14_Witness ==
    /\ ~use_coins_in.given
    /\ replies = <<FALSE>>
    /\ budget_in.given
    /\ filter_done
    /\ outcome = Raised("NoFundingCoinsError")

\* C15: for a list of identifiers exactly one GetMultipleGasObjects query is
\* issued; when it fails the call raises the remote-query error, has no coins
\* and issues no dry run.
C15_FetchByIds ==
    (pc # "start" /\ coins_truthy(use_coins_in) /\ all_str(use_coins_in.items)) =>
        /\ queries[1] = GetMultipleGasObjects
        /\ CountOf("GetMultipleGasObjects") = 1
        /\ CountOf("GetCoins") = 0
        /\ (Len(replies) >= 1 /\ ~replies[1]) =>
              /\ pc = "done"
              /\ outcome = Raised("RemoteQueryError")
              /\ queries = <<GetMultipleGasObjects>>
              /\ use_coins = <<>>
              /\ ~filter_done

\* identifiers given, no budget (a dry run would follow), the query fails
C15_Witness ==
    /\ Len(use_coins_in.items) = 2
    /\ all_str(use_coins_in.items)
    /\ ~budget_in.given
    /\ replies = <<FALSE>>
    /\ outcome = Raised("RemoteQueryError")

\* C16 as stated: a call issues at most two remote queries, and exactly one
\* when both a budget and a coin list are supplied.
C16_AtMostTwoQueries ==
    /\ Len(queries) <= 2
    /\ (pc = "done" /\ budget_in.given /\ use_coins_in.given) => Len(queries) = 1

\* C16 as amended: a call issues at most one query by identifiers or else one
\* listing query per page, never both, and at most one dry run, hence at most
\* two queries unless the listing takes more than one page; given a non-empty
\* coin list and a budget it issues exactly one inventory query for a list of
\* identifiers and none for any other list, and a dry run only for a budget
\* of 0.
C16_QueryCount ==
    /\ CountOf("GetMultipleGasObjects") <= 1
    /\ CountOf("DryRunTransactionKind") <= 1
    /\ CountOf("GetMultipleGasObjects") = 0 \/ CountOf("GetCoins") = 0
    /\ CountOf("GetCoins") <= Len(pages) + 1
    /\ Len(queries) = CountOf("GetMultipleGasObjects") + CountOf("GetCoins")
                        + CountOf("DryRunTransactionKind")
    /\ CountOf("GetCoins") <= 1 => Len(queries) <= 2
    /\ (pc = "done" /\ coins_truthy(use_coins_in) /\ budget_in.given) =>
          /\ CountOf("GetCoins") = 0
          /\ CountOf("GetMultipleGasObjects") =
                (IF all_str(use_coins_in.items) THEN 1 ELSE 0)
          /\ budget_in.val # 0 => CountOf("DryRunTransactionKind") = 0

\* two listing pages and a dry run: three queries, GasData returned
C16_Witness ==
    /\ pc = "done"
    /\ Len(queries) = 3
    /\ CountOf("GetCoins") = 2
    /\ outcome.kind = "GasData"

\* C17: the selector is called only once every inventory query has been
\* answered and, with the budget absent, once the dry run has been answered;
\* no query is issued after it.
C17_SelectionLast ==
    /\ selector_calls = Len(selector_args)
    /\ \A i \in 1..Len(selector_args) :
          /\ selector_args[i].issued = selector_args[i].answered
          /\ selector_args[i].issued = Len(queries)
          /\ Len(replies) = Len(queries)
          /\ pc = "done"
          /\ ~coins_truthy(use_coins_in) => CountOf("GetCoins") >= 1
          /\ ~(budget_in.given /\ budget_in.val # 0) =>
                /\ dry_reply.answered
                /\ queries[Len(queries)] = DryRunTransactionKind

\* the selector called after two listing pages and the dry run
C17_Witness ==
    /\ selector_calls = 1
    /\ ~budget_in.given
    /\ CountOf("GetCoins") = 2
    /\ selector_args[1].issued = 3
    /\ selector_args[1].answered = 3

\* C18: no step of a call changes the caller's objects_in_use, use_coins list
\* or budget.
C18_ArgumentsUntouched ==
    [][/\ objects_in_use' = objects_in_use
       /\ use_coins_in' = use_coins_in
       /\ budget_in' = budget_in]_vars

\* a list of two coins given, one of them filtered out as in use
C18_Witness ==
    /\ pc = "done"
    /\ filter_done
    /\ Len(use_coins_in.items) = 2
    /\ all_coin(use_coins_in.items)
    /\ Len(use_coins) = 1
    /\ outcome.kind = "GasData"

\* coin identifiers of s are pairwise distinct
DistinctIds(s) ==
    \A i \in 1..Len(s), j \in 1..Len(s) :
        i # j => s[i].coin_object_id # s[j].coin_object_id

\* C20: neither the coins handed to the selector nor the payment list of a
\* returned GasData holds the same coin identifier twice.
C20_NoDuplicateIds ==
    /\ \A i \in 1..Len(selector_args) : DistinctIds(selector_args[i].coins)
    /\ outcome.kind = "GasData" =>
          \A i \in 1..Len(outcome.payment), j \in 1..Len(outcome.payment) :
              i # j => outcome.payment[i].ObjectID # outcome.payment[j].ObjectID

\* C19: however the steps of two calls interleave, and whether or not the two
\* were given the same list of coins by their caller, each call's locals, and
\* with them its outcome, are at every moment what the call would have had it
\* run alone, entered with the same arguments while the caller's list held
\* what it held at this call's entry, and given the same query results.
C19_InterleavingIndependent ==
    \A i \in Calls :
        frames[frame_of(i)] =
            IF conc_calls[i].entered
            THEN Solo(conc_calls[i].args, conc_calls[i].list_at_entry,
                      conc_calls[i].log).fr
            ELSE NewFrame

\* both calls were given the caller's list of two coins; while call b waited
\* for its dry run with its local name bound to that list, call a ran from
\* entry to return and paid with the second coin, having filtered the first
\* one out as in use; call b then paid with the first coin
C19_Witness ==
    /\ overlapped
    /\ caller_coins = SomeCoins(<<CoinItem("c1", 1), CoinItem("c2", 1)>>)
    /\ \A i \in Calls :
          /\ conc_calls[i].args.use_coins = CallerCoins
          /\ frames[frame_of(i)].pc = "done"
          /\ frames[frame_of(i)].outcome.kind = "GasData"
    /\ conc_calls["a"].args.objects_in_use = {"c1"}
    /\ conc_calls["a"].log = <<>>
    /\ frames[frame_of("a")].outcome.payment = <<from_gql_ref(CoinItem("c2", 1))>>
    /\ conc_calls["b"].args.objects_in_use = {}
    /\ Len(conc_calls["b"].log) = 1
    /\ frames[frame_of("b")].outcome.payment[1] = from_gql_ref(CoinItem("c1", 1))

\* C21: every dry-run query carries the transaction body, the gas price, the
\* sender and the sponsor, and has its skip_checks flag set.
C21_DryRunRequest ==
    \A i \in 1..Len(queries) :
        queries[i].node = "DryRunTransactionKind" =>
            /\ queries[i].tx_bytestr = tx_bytes(tx_kind)
            /\ queries[i].tx_meta.gasPrice = active_gas_price
            /\ queries[i].tx_meta.sender = signing.sender_str
            /\ queries[i].tx_meta.gasSponsor = signing.sponsor_str
            /\ queries[i].skip_checks = TRUE

\* C22: a returned GasData has for payment the references of the selector's
\* result on the filtered candidates, in the selector's order, for owner the
\* payer address (the address every listing query asks for), for price the
\* gas price passed in and for budget the resolved budget.
C22_GasDataFields ==
    outcome.kind = "GasData" =>
        /\ selector_calls = 1
        /\ selector_args[1].coins = use_coins
        /\ selector_args[1].budget = budget.val
        /\ coin_fit = coins_for_budget(use_coins, budget.val).coin_fit
        /\ outcome.payment = RefsOf(coin_fit)
        /\ outcome.owner = [address |-> signing.payer_address]
        /\ \A i \in 1..Len(queries) :
              queries[i].node = "GetCoins" =>
                  queries[i].owner = signing.payer_address
        /\ outcome.price = active_gas_price
        /\ budget.given
        /\ outcome.budget = budget.val

\* GasData of two references, of the coins of two listed pages, with an
\* estimated budget
C22_Witness ==
    /\ outcome.kind = "GasData"
    /\ Len(outcome.payment) = 2
    /\ outcome.payment[1] # outcome.payment[2]
    /\ CountOf("GetCoins") = 2
    /\ CountOf("DryRunTransactionKind") = 1
    /\ outcome.budget = 2

\* the first n elements of s
Prefix(s, n) == SubSeq(s, 1, n)

\* the length of the shortest prefix of s whose balances sum to b or more
\* (0 if there is none)
ShortestCover(s, b) ==
    IF \E n \in 0..Len(s) : SumBalances(Prefix(s, n)) >= b
    THEN CHOOSE n \in 0..Len(s) :
            /\ SumBalances(Prefix(s, n)) >= b
            /\ \A m \in 0..(n - 1) : SumBalances(Prefix(s, m)) < b
    ELSE 0

\* C24: with a budget > 0, no balance strictly above it and a total that
\* covers it, the selector returns the shortest prefix of its input whose
\* balances sum to the budget or more: every coin of that prefix, those
\* without balance included, in input order, and none after it.
C24_ShortestPrefix ==
    (SelApplied /\ sel_budget > 0 /\ FirstAbove(sel_coins, sel_budget) = 0
                /\ SumBalances(sel_coins) >= sel_budget) =>
        /\ sel_out.state = "returned"
        /\ ShortestCover(sel_coins, sel_budget) >= 1
        /\ sel_out.coin_fit = Prefix(sel_coins, ShortestCover(sel_coins, sel_budget))
        /\ sel_out.refs = RefsOf(sel_out.coin_fit)

\* a coin without balance, then one that reaches the budget, then one more
C24_Witness ==
    /\ sel_out.state = "returned"
    /\ Len(sel_coins) = 3
    /\ sel_coins[1].balance = 0
    /\ sel_coins[2].balance = sel_budget
    /\ sel_coins[3].balance > 0
    /\ sel_coins[3].balance <= sel_budget
    /\ sel_out.coin_fit = <<sel_coins[1], sel_coins[2]>>

\* the position of the first coin of s whose balance is b (0 if none)
FirstEqual(s, b) ==
    IF \E i \in 1..Len(s) : s[i].balance = b
    THEN CHOOSE i \in 1..Len(s) :
            /\ s[i].balance = b
            /\ \A j \in 1..(i - 1) : s[j].balance # b
    ELSE 0

\* C25: a coin whose balance equals the budget is not taken by the
\* single-coin shortcut: when no balance is strictly above the budget the
\* result comes from the accumulation, so it starts at the first coin of the
\* input, and it runs up to the coin that equals the budget whenever the
\* coins before that one do not reach the budget (a lone such coin is the
\* result; [a, b] with a below the budget and b equal to it gives [a, b]).
C25_EqualIsAccumulated ==
    (SelApplied /\ sel_budget > 0 /\ FirstAbove(sel_coins, sel_budget) = 0
                /\ FirstEqual(sel_coins, sel_budget) # 0) =>
        /\ sel_out.state = "returned"
        /\ sel_out.accum = SumBalances(sel_out.coin_fit)
        /\ sel_out.accum >= sel_budget
        /\ sel_out.coin_fit = Prefix(sel_coins, Len(sel_out.coin_fit))
        /\ Len(sel_out.coin_fit) <= FirstEqual(sel_coins, sel_budget)
        /\ SumBalances(Prefix(sel_coins, FirstEqual(sel_coins, sel_budget) - 1))
                < sel_budget =>
              sel_out.coin_fit =
                  Prefix(sel_coins, FirstEqual(sel_coins, sel_budget))

\* [a, b] with a below the budget and b equal to it gives [a, b]
C25_Witness ==
    /\ sel_out.state = "returned"
    /\ Len(sel_coins) = 2
    /\ sel_coins[1].balance > 0
    /\ sel_coins[1].balance < sel_budget
    /\ sel_coins[2].balance = sel_budget
    /\ sel_out.coin_fit = sel_coins
    /\ sel_out.refs = RefsOf(sel_coins)

\* C26: when the query for a page after the first fails, the listing ends
\* there without raising: no listing query follows, coin_list is the coins of
\* the pages before it, and the call goes on with them as its candidates.
C26_LaterPageFailure ==
    \A k \in 2..Len(replies) :
        (~coins_truthy(use_coins_in) /\ queries[k].node = "GetCoins"
                                     /\ ~replies[k]) =>
            /\ CountOf("GetCoins") = k
            /\ Len(pages) = k - 1
            /\ coin_list = ConcatPages(pages)
            /\ pc \in {"dry_run", "done"}
            /\ pc = "dry_run" => use_coins = coin_list
            /\ filter_done => use_coins = remove_conflicts(coin_list, objects_in_use)
            /\ CountOf("DryRunTransactionKind") = 1 \/ filter_done
            /\ outcome.error # "RemoteQueryError"

\* the second page fails and GasData is paid from the coin of the first
C26_Witness ==
    /\ ~use_coins_in.given
    /\ replies = <<TRUE, FALSE>>
    /\ Len(coin_list) = 1
    /\ outcome.kind = "GasData"
    /\ outcome.payment = RefsOf(coin_list)

\* C28: with the budget absent, the dry run is issued before the filter and
\* the test for remaining candidates: once the inventory is there the dry run
\* is issued whether or not any candidate is or will be left, the filter runs
\* only after its answer, and a failed dry run gives the estimator's error,
\* not the no-funding-coins error.
C28_DryRunBeforeFilter ==
    ~budget_in.given =>
        /\ filter_done => (dry_reply.answered /\ dry_reply.is_ok)
        /\ (pc \in {"dry_run", "done"}
              /\ outcome.error \notin {"RemoteQueryError", "InvalidArgumentError"}) =>
                 CountOf("DryRunTransactionKind") = 1
        /\ (dry_reply.answered /\ ~(dry_reply.is_ok /\ dry_reply.status = "SUCCESS")) =>
              /\ outcome.error \in {"TransportError", "SimulationError"}
              /\ ~filter_done

\* every candidate is reserved, the dry run cannot be executed, and the call
\* ends in the estimator's error
C28_Witness ==
    /\ ~budget_in.given
    /\ use_coins # <<>>
    /\ remove_conflicts(use_coins, objects_in_use) = <<>>
    /\ dry_reply.answered
    /\ ~dry_reply.is_ok
    /\ outcome = Raised("TransportError")

\* C29: the payment list of a returned GasData holds at least one reference.
C29_PaymentNotEmpty ==
    outcome.kind = "GasData" => Len(outcome.payment) >= 1

\* C27: an empty use_coins list is taken as no list: the call starts the
\* listing of the payer's coins, and a call given the empty list and a call
\* given no list, with the same other arguments and the same query results,
\* stand at the same place with the same locals and the same outcome.
C27_EmptyListIsAbsent ==
    \A i \in Calls, j \in Calls :
        (/\ conc_calls[i].entered
         /\ conc_calls[j].entered
         /\ conc_calls[i].args.use_coins = SomeCoins(<<>>)
         /\ conc_calls[j].args = [conc_calls[i].args EXCEPT !.use_coins = NoCoins]
         /\ conc_calls[i].log = conc_calls[j].log) =>
            /\ frames[frame_of(i)] = frames[frame_of(j)]
            /\ frames[frame_of(i)].outcome = frames[frame_of(j)].outcome
            /\ frames[frame_of(i)].listed >= 1
            /\ conc_calls[i].log = <<>> => frames[frame_of(i)].pc = "fetch_all"

\* one call with the empty list, one with none, the same two results each,
\* and both return GasData
C27_Witness ==
    /\ conc_calls["a"].args.use_coins = SomeCoins(<<>>)
    /\ conc_calls["b"].args = [conc_calls["a"].args EXCEPT !.use_coins = NoCoins]
    /\ conc_calls["a"].entered
    /\ conc_calls["b"].entered
    /\ conc_calls["a"].log = conc_calls["b"].log
    /\ Len(conc_calls["a"].log) = 2
    /\ frames[frame_of("a")].outcome.kind = "GasData"

\* C23: add_keypair_and_parts with a key string not in key_list and an alias
\* name not in alias_list appends the address, the key and the alias, makes
\* the address the one in use when make_active is true, and does not raise.
C23_AddKeypairCompletes ==
    [][(/\ last_op'.op = "add_keypair_and_parts"
        /\ key_exists(group, last_op'.args[3].private_key_base64) = 0
        /\ alias_exists(group, last_op'.args[2].alias) = 0) =>
           /\ group'.address_list = Append(group.address_list, last_op'.args[1])
           /\ group'.key_list = Append(group.key_list, last_op'.args[3])
           /\ group'.alias_list = Append(group.alias_list, last_op'.args[2])
           /\ group'.using_address = IF last_op'.args[4] THEN last_op'.args[1]
                                                         ELSE group.using_address
           /\ ~last_op'.raised]_vars

\* C30: a listing under way always comes to an end, the remote answering a
\* query with a failure or with a page that reports no next one; and it has
\* no page limit of its own: after every page that reports a next one it
\* issues one more listing query.
C30_ListingReturns ==
    /\ (pc = "fetch_all") ~> (pc # "fetch_all")
    /\ [][(/\ pc = "fetch_all"
           /\ Len(pages') = Len(pages) + 1
           /\ pages'[Len(pages')].hasNextPage) =>
              /\ pc' = "fetch_all"
              /\ Len(queries') = Len(queries) + 1
              /\ queries'[Len(queries')].node = "GetCoins"]_vars

\* a listing that returned after as many pages as the remote had
C30_Witness ==
    /\ pc = "done"
    /\ CountOf("GetCoins") = MaxPages
    /\ Len(pages) = MaxPages
    /\ ~pages[Len(pages)].hasNextPage
    /\ outcome.kind = "GasData"

\* the entries s had are where they were in t
KeepsEntries(s, t) == Len(t) >= Len(s) /\ SubSeq(t, 1, Len(s)) = s

\* the public keys of the aliases, in list order
RECURSIVE PublicKeysOf(_)
PublicKeysOf(s) ==
    IF s = <<>> THEN <<>> ELSE <<s[1].public_key_base64>> \o PublicKeysOf(Tail(s))

\* C31: address_list, key_list and alias_list have the same length after any
\* sequence of operations, whether they raise or not, and what one
\* add_keypair_and_parts has added stays at one position of the three lists:
\* no operation moves or removes an entry, an added address, key and alias go
\* to the end of their lists together, and only replace_alias_name changes
\* an alias, in its name.
C31_ListsInStep ==
    /\ [](/\ Len(group.address_list) = Len(group.key_list)
          /\ Len(group.key_list) = Len(group.alias_list))
    /\ [][/\ KeepsEntries(group.address_list, group'.address_list)
          /\ KeepsEntries(group.key_list, group'.key_list)
          /\ KeepsEntries(PublicKeysOf(group.alias_list),
                          PublicKeysOf(group'.alias_list))
          /\ last_op'.op # "replace_alias_name" =>
                KeepsEntries(group.alias_list, group'.alias_list)
          /\ Len(group'.address_list) > Len(group.address_list) =>
                /\ last_op'.op = "add_keypair_and_parts"
                /\ group'.address_list = Append(group.address_list, last_op'.args[1])
                /\ group'.alias_list = Append(group.alias_list, last_op'.args[2])
                /\ group'.key_list = Append(group.key_list, last_op'.args[3])]_vars

\* add_keypair_and_parts has just added a second address with its key and
\* its alias
C31_Witness ==
    /\ last_op.op = "add_keypair_and_parts"
    /\ Len(group.address_list) = 2
    /\ group.address_list[2] = last_op.args[1]
    /\ group.alias_list[2] = last_op.args[2]
    /\ group.key_list[2] = last_op.args[3]
    /\ group.alias_list[1].alias # group.alias_list[2].alias

\* C32: add_keypair_and_parts with a key string that is in key_list, or with
\* a new key string and an alias name that is in alias_list, raises
\* ValueError and leaves the group as it was.
C32_RejectedAddChangesNothing ==
    [][(/\ last_op'.op = "add_keypair_and_parts"
        /\ \/ key_exists(group, last_op'.args[3].private_key_base64) # 0
           \/ alias_exists(group, last_op'.args[2].alias) # 0) =>
           /\ last_op'.raised
           /\ last_op'.error \in {"KeyExists", "AliasExists"}
           /\ group' = group]_vars

\* an add with a new key string and the alias name of the one entry there is
C32_Witness ==
    /\ last_op.op = "add_keypair_and_parts"
    /\ last_op.raised
    /\ last_op.error = "AliasExists"
    /\ Len(group.alias_list) = 1
    /\ group.alias_list[1].alias = last_op.args[2].alias
    /\ group.key_list[1] # last_op.args[3]
    /\ last_op.args[4]
    /\ group.using_address # last_op.args[1]

\* C33: using_address is an element of address_list after any sequence of
\* operations.  Assigning active_address an address that is not in the list
\* raises ValueError and leaves using_address as it was; assigning
\* active_alias a name no alias has does the same; assigning it a name an
\* alias has makes using_address the address at that alias's position.
C33_UsingAddressListed ==
    /\ [](address_exists(group, group.using_address) # 0)
    /\ [][/\ (last_op'.op = "active_address"
                /\ address_exists(group, last_op'.args[1]) = 0) =>
                   (last_op'.raised /\ group' = group)
          /\ (last_op'.op = "active_address"
                /\ address_exists(group, last_op'.args[1]) # 0) =>
                   (~last_op'.raised /\ group'.using_address = last_op'.args[1])
          /\ (last_op'.op = "active_alias"
                /\ alias_exists(group, last_op'.args[1]) = 0) =>
                   (last_op'.raised /\ group' = group)
          /\ (last_op'.op = "active_alias"
                /\ alias_exists(group, last_op'.args[1]) # 0) =>
                   /\ ~last_op'.raised
                   /\ group' = [group EXCEPT !.using_address =
                         group.address_list[alias_exists(group, last_op'.args[1])]]
          /\ (last_op'.op = "add_keypair_and_parts"
                /\ group'.using_address # group.using_address) =>
                   /\ last_op'.args[4]
                   /\ group'.using_address = last_op'.args[1]
                   /\ group'.address_list =
                         Append(group.address_list, last_op'.args[1])]_vars

\* active_alias has just moved using_address to the second address, that of
\* the alias named
C33_Witness ==
    /\ last_op.op = "active_alias"
    /\ ~last_op.raised
    /\ Len(group.address_list) = 2
    /\ group.address_list[1] # group.address_list[2]
    /\ group.alias_list[2].alias = last_op.args[1]
    /\ group.using_address = group.address_list[2]

\* the alias names of the group are pairwise distinct
DistinctAliases(g) ==
    \A i \in 1..Len(g.alias_list), j \in 1..Len(g.alias_list) :
        i # j => g.alias_list[i].alias # g.alias_list[j].alias

\* C34: the alias names stay pairwise distinct after any sequence of
\* operations.  replace_alias_name raises ValueError and changes nothing when
\* an alias is named to_alias already (to_alias = from_alias included) or
\* none is named from_alias; otherwise it renames that one alias, leaves the
\* rest of the group alone and returns the address at the alias's position.
C34_AliasNamesDistinct ==
    /\ []DistinctAliases(group)
    /\ [][last_op'.op = "replace_alias_name" =>
            IF alias_exists(group, last_op'.args[1]) = 0
                  \/ alias_exists(group, last_op'.args[2]) # 0
            THEN last_op'.raised /\ group' = group
            ELSE /\ ~last_op'.raised
                 /\ group' = [group EXCEPT
                       !.alias_list[alias_exists(group, last_op'.args[1])].alias =
                           last_op'.args[2]]
                 /\ last_op'.ret =
                       group.address_list[alias_exists(group, last_op'.args[1])]]_vars

\* the second of two aliases has just been renamed and the second address
\* returned
C34_Witness ==
    /\ last_op.op = "replace_alias_name"
    /\ ~last_op.raised
    /\ Len(group.alias_list) = 2
    /\ group.alias_list[2].alias = last_op.args[2]
    /\ group.alias_list[1].alias # last_op.args[1]
    /\ group.address_list[1] # group.address_list[2]
    /\ last_op.ret = group.address_list[2]

\* the profile names of the group are pairwise distinct
DistinctProfiles(g) ==
    \A i \in 1..Len(g.profiles), j \in 1..Len(g.profiles) :
        i # j => g.profiles[i].profile_name # g.profiles[j].profile_name

\* C35: the profile names stay pairwise distinct and using_profile stays the
\* name of a profile after any sequence of operations.  add_profile with a
\* name a profile has raises ValueError and changes nothing; assigning
\* active_profile a name no profile has raises ValueError and changes nothing.
C35_ProfilesConsistent ==
    /\ [](DistinctProfiles(group) /\ profile_exists(group, group.using_profile) # 0)
    /\ [][/\ (last_op'.op = "add_profile"
                /\ profile_exists(group, last_op'.args[1].profile_name) # 0) =>
                   (last_op'.raised /\ group' = group)
          /\ (last_op'.op = "add_profile"
                /\ profile_exists(group, last_op'.args[1].profile_name) = 0) =>
                   /\ ~last_op'.raised
                   /\ group'.profiles = Append(group.profiles, last_op'.args[1])
                   /\ group'.using_profile =
                         IF last_op'.args[2] THEN last_op'.args[1].profile_name
                                             ELSE group.using_profile
          /\ (last_op'.op = "active_profile"
                /\ profile_exists(group, last_op'.args[1]) = 0) =>
                   (last_op'.raised /\ group' = group)
          /\ (last_op'.op = "active_profile"
                /\ profile_exists(group, last_op'.args[1]) # 0) =>
                   /\ ~last_op'.raised
                   /\ group' = [group EXCEPT !.using_profile = last_op'.args[1]]]_vars

\* add_profile of a name that one of the two profiles has, not the one in
\* use, asked to make it active: raised
C35_Witness ==
    /\ last_op.op = "add_profile"
    /\ last_op.raised
    /\ last_op.args[2]
    /\ Len(group.profiles) = 2
    /\ profile_exists(group, last_op.args[1].profile_name) # 0
    /\ group.using_profile # last_op.args[1].profile_name

====
